---- MODULE Spec2Model ----
(***************************************************************************)
(* Escrow layer of the fandom-entry-pass ticket marketplace.               *)
(*                                                                         *)
(* One order = one Stripe PaymentIntent created with capture_method        *)
(* "manual".  The order's state lives at the payment provider: the         *)
(* PaymentIntent status and its free-form metadata (fep_status,            *)
(* fep_confirm_deadline, fep_*_at).  Every endpoint is a stateless         *)
(* serverless handler: it retrieves the PaymentIntent, decides, and then   *)
(* issues one provider call per step.  Handlers run concurrently; a        *)
(* request slot holds one running handler with the snapshot it read.       *)
(***************************************************************************)
EXTENDS Integers, FiniteSets, Sequences, TLC

VARIABLES
    now,        \* Math.floor(Date.now() / 1000), in ticks
    session,    \* the Checkout Session created by create-checkout-session
    pi,         \* the PaymentIntent at the provider: status + metadata
    idem,       \* idempotency keys the provider holds a saved success for
    events,     \* webhook events the provider has emitted (redeliverable)
    req,        \* request slots: the handler invocations in flight
    stats,      \* provider-side history: calls received, effects applied
    remaining,  \* the listing's remaining count in the tickets file
    resp,       \* the response most recently returned: endpoint and body
    started,    \* number of handler invocations begun so far
    orders,     \* the provider's intents of several orders, as a sweep meets them
    run,        \* the scheduler's sweep in progress: position, counters, response
    quote,      \* a checkout request being priced: its body and what is computed
    listings    \* data/listings.json and data/processed-intents.json, and the
                \* copy of the listing each session-status invocation has read

vars ==
    <<now, session, pi, idem, events, req, stats, remaining, resp, started,
      orders, run, quote, listings>>

(***************************************************************************)
(* Bounds of the model.                                                    *)
(***************************************************************************)
MaxTime == 3
MaxRequests == 3        \* invocations in a sequential run
MaxRaceRequests == 2    \* invocations in a run where they overlap
InitRemaining == 3
Slots == {1, 2}
SeqSlots == {1}

(***************************************************************************)
(* Program constants.  One tick stands for 72 hours, so the hard-coded     *)
(* 72 * 3600 seconds of the webhook is 1 tick.                            *)
(***************************************************************************)
DEFAULT_ESCROW_SECS == 1

\* CONFIRM_HOURS = Number(process.env.FEP_CONFIRM_HOURS || 72): the default
\* window and a deployment configured with a longer one.
ConfirmHoursChoices == {DEFAULT_ESCROW_SECS, DEFAULT_ESCROW_SECS + 1}

(***************************************************************************)
(* PaymentIntent metadata.  "" and 0 stand for an absent key.  The         *)
(* fep_captured_at / fep_canceled_at / fep_sent_at values are written as   *)
(* String(now) and read by no handler: the model keeps 1 for a key that    *)
(* is set.                                                                 *)
(***************************************************************************)
Stamp(t) == 1

NoMeta ==
    [fep_status |-> "", fep_confirm_deadline |-> 0, fep_captured_at |-> 0,
     fep_canceled_at |-> 0, fep_sent_at |-> 0]

\* stripe.paymentIntents.update(id, {metadata: upd}): the provider merges the
\* given keys into the stored metadata; keys not given are kept.
MergeMeta(cur, upd) ==
    [fep_status |->
        IF upd.fep_status = "" THEN cur.fep_status ELSE upd.fep_status,
     fep_confirm_deadline |->
        IF upd.fep_confirm_deadline = 0 THEN cur.fep_confirm_deadline
        ELSE upd.fep_confirm_deadline,
     fep_captured_at |->
        IF upd.fep_captured_at = 0 THEN cur.fep_captured_at
        ELSE upd.fep_captured_at,
     fep_canceled_at |->
        IF upd.fep_canceled_at = 0 THEN cur.fep_canceled_at
        ELSE upd.fep_canceled_at,
     fep_sent_at |->
        IF upd.fep_sent_at = 0 THEN cur.fep_sent_at ELSE upd.fep_sent_at]

NoPI == [status |-> "none", meta |-> NoMeta]
NoSession ==
    [open |-> FALSE, meta |-> NoMeta, seller |-> FALSE, price |-> 0, qty |-> 0,
     created |-> 0]
NoEvent == [sent |-> FALSE, meta |-> NoMeta]
IdleReq ==
    [kind |-> "none", pc |-> "idle", snap |-> NoPI, t |-> 0]

\* Outcome of one provider call as the caller sees it: it succeeds, it fails
\* without effect, or its effect is applied but the reply is lost (timeout).
Outcomes == {"ok", "fail", "lost"}

\* The listing's file and the ledger of processed intents before any sale;
\* start keeps the count the listing had then.
NoListings ==
    [start |-> InitRemaining, remaining |-> InitRemaining, processed |-> FALSE,
     read |-> [r \in Slots |-> 0]]

Init(S) ==
    /\ now = 1
    /\ session = NoSession
    /\ pi = NoPI
    /\ idem = {}
    /\ events = [completed |-> NoEvent, capturable |-> NoEvent,
                 succeeded |-> NoEvent, canceled |-> NoEvent]
    /\ req = [r \in Slots |-> IF r \in S THEN IdleReq ELSE [IdleReq EXCEPT !.pc = "off"]]
    /\ stats = [captureCalls |-> 0, captures |-> 0, cancelCalls |-> 0,
                cancels |-> 0, transfers |-> 0]
    /\ remaining = InitRemaining
    /\ resp = [kind |-> "none", res |-> ""]
    /\ started = 0
    /\ orders = [o \in {} |-> NoPI]
    /\ run = [pc |-> "idle"]
    /\ quote = [pc |-> "idle"]
    /\ listings = NoListings

\* Only the time elapsed since the session was created matters.
Tick ==
    /\ session.open
    /\ now < MaxTime
    /\ now' = now + 1
    /\ UNCHANGED <<session, pi, idem, events, req, stats, remaining, resp, started>>
    /\ UNCHANGED <<orders, run, quote, listings>>

(***************************************************************************)
(* The payment provider's primitives, as the handlers use them.            *)
(***************************************************************************)

\* A request carrying an idempotency key the provider has a saved success
\* for is answered from the saved response and executes nothing.
Replay(key) == key # "" /\ key \in idem

\* Mutant: a capture that is applied whatever the intent's status.
CaptureApplies_AnyStatus(key, o) ==
    o # "fail" /\ ~Replay(key) /\ pi.status # "none"

\* stripe.paymentIntents.capture: only a requires_capture intent is captured.
CaptureApplies(key, o) ==
    o # "fail" /\ ~Replay(key) /\ pi.status = "requires_capture"

CaptureReply(key, o) ==
    IF o # "ok" THEN "error"
    ELSE IF Replay(key) \/ pi.status = "requires_capture" THEN "ok"
    ELSE "unexpected_state"

ProviderCapture(key, o) ==
    /\ pi' = IF CaptureApplies(key, o)
             THEN [pi EXCEPT !.status = "succeeded"] ELSE pi
    /\ idem' = IF CaptureApplies(key, o) /\ key # "" THEN idem \cup {key} ELSE idem
    /\ events' = IF CaptureApplies(key, o)
                 THEN [events EXCEPT !.succeeded = [sent |-> TRUE, meta |-> pi.meta]]
                 ELSE events
    /\ stats' = [stats EXCEPT
                   !.captureCalls = @ + 1,
                   !.captures = @ + (IF CaptureApplies(key, o) THEN 1 ELSE 0)]

\* stripe.paymentIntents.cancel: only an uncaptured intent is voided.
CancelApplies(key, o) ==
    o # "fail" /\ ~Replay(key) /\ pi.status = "requires_capture"

CancelReply(key, o) ==
    IF o # "ok" THEN "error"
    ELSE IF Replay(key) \/ pi.status = "requires_capture" THEN "ok"
    ELSE "unexpected_state"

ProviderCancel(key, o) ==
    /\ pi' = IF CancelApplies(key, o)
             THEN [pi EXCEPT !.status = "canceled"] ELSE pi
    /\ idem' = IF CancelApplies(key, o) /\ key # "" THEN idem \cup {key} ELSE idem
    /\ events' = IF CancelApplies(key, o)
                 THEN [events EXCEPT !.canceled = [sent |-> TRUE, meta |-> pi.meta]]
                 ELSE events
    /\ stats' = [stats EXCEPT
                   !.cancelCalls = @ + 1,
                   !.cancels = @ + (IF CancelApplies(key, o) THEN 1 ELSE 0)]

\* stripe.paymentIntents.update(id, {metadata}): no idempotency key is used.
ProviderUpdate(upd, o) ==
    /\ pi' = IF o # "fail" /\ pi.status # "none"
             THEN [pi EXCEPT !.meta = MergeMeta(pi.meta, upd)] ELSE pi
    /\ UNCHANGED <<idem, events, stats>>

UpdateReply(o) == IF o = "ok" /\ pi.status # "none" THEN "ok" ELSE "error"

\* stripe.transfers.create: no idempotency key is used.
ProviderTransfer(o) ==
    /\ stats' = [stats EXCEPT !.transfers = @ + (IF o # "fail" THEN 1 ELSE 0)]
    /\ UNCHANGED <<pi, idem, events>>

(***************************************************************************)
(* Request slots.                                                          *)
(***************************************************************************)
\* A new invocation takes the lowest slot that holds no running handler
\* (slots carry no identity of their own).
Vacant(r) == req[r].pc = "idle"

\* The number of invocations a run may begin: with a single slot in use
\* they run in sequence, with more they overlap.
Limit ==
    IF \E r \in Slots : req[r].pc = "off" THEN MaxRequests ELSE MaxRaceRequests

Free(r) ==
    /\ Vacant(r)
    /\ \A q \in Slots : q < r => ~Vacant(q)
    /\ started < Limit

\* The handlers whose later steps use the time read at their start.
ClockKinds == {"wh_completed", "wh_capturable"}

\* A handler that has read the PaymentIntent and goes on to pc.
Enter(r, k, pc) ==
    /\ req' = [req EXCEPT ![r] =
                 [kind |-> k, pc |-> pc, snap |-> pi,
                  t |-> IF k \in ClockKinds THEN now ELSE 0]]
    /\ started' = started + 1
    /\ UNCHANGED resp

\* A handler that answers right after reading.
Answer(r, k, res) ==
    /\ resp' = [kind |-> k, res |-> res]
    /\ started' = started + 1
    /\ UNCHANGED req

Goto(r, pc) ==
    /\ req' = [req EXCEPT ![r].pc = pc]
    /\ UNCHANGED <<resp, started>>

\* The handler returns its response; the invocation is over.
Finish(r, res) ==
    /\ resp' = [kind |-> req[r].kind, res |-> res]
    /\ req' = [req EXCEPT ![r] = IdleReq]
    /\ UNCHANGED started

At(r, k, pc) == req[r].kind = k /\ req[r].pc = pc

(***************************************************************************)
(* api/create-checkout-session.js and the buyer completing Checkout.       *)
(***************************************************************************)
\* confirmDeadline = Math.floor(Date.now() / 1000) + CONFIRM_HOURS * 3600
ConfirmDeadline(t, hours) == t + hours

\* payment_intent_data.metadata of the current handler, and of the earlier
\* revision that stores fep_status "pending" and no deadline.
SessionMeta(variant, t, hours) ==
    IF variant = "escrow"
    THEN [NoMeta EXCEPT !.fep_status = "authorized",
                        !.fep_confirm_deadline = ConfirmDeadline(t, hours)]
    ELSE [NoMeta EXCEPT !.fep_status = "pending"]

CreateCheckoutSession ==
    /\ ~session.open
    /\ \E hours \in ConfirmHoursChoices, seller \in BOOLEAN,
          variant \in {"escrow", "pending"} :
         session' = [open |-> TRUE,
                     meta |-> SessionMeta(variant, now, hours),
                     seller |-> seller, price |-> 1000, qty |-> 2,
                     created |-> now]
    /\ UNCHANGED <<now, pi, idem, events, req, stats, remaining, resp, started>>
    /\ UNCHANGED <<orders, run, quote, listings>>

\* The buyer pays on the hosted page: the intent is authorized (held) with
\* payment_intent_data.metadata, and the provider emits its events.
CheckoutCompleted ==
    /\ session.open
    /\ pi.status = "none"
    /\ pi' = [status |-> "requires_capture", meta |-> session.meta]
    /\ events' = [events EXCEPT
                    !.completed = [sent |-> TRUE, meta |-> NoMeta],
                    !.capturable = [sent |-> TRUE, meta |-> session.meta]]
    /\ UNCHANGED <<now, session, idem, req, stats, remaining, resp, started>>
    /\ UNCHANGED <<orders, run, quote, listings>>

(***************************************************************************)
(* api/confirm-received.js (capture only) and its revision with the seller *)
(* payout (transfer after capture).                                        *)
(***************************************************************************)
ConfirmKinds == {"confirm", "confirm_payout"}

\* Mutant: the early return taken for every intent that is not awaiting
\* capture (pi.status !== "requires_capture").
ConfirmDecision_AnyFinal(status, deadline, t) ==
    IF status = "none" THEN "404"
    ELSE IF status # "requires_capture" THEN "alreadyCaptured"
    ELSE IF deadline # 0 /\ t > deadline THEN "expired"
    ELSE "capture"

ConfirmDecision(status, deadline, t) ==
    IF status = "none" THEN "404"
    ELSE IF status = "succeeded" THEN "alreadyCaptured"
    ELSE IF deadline # 0 /\ t > deadline THEN "expired"
    ELSE "capture"

\* The idempotency key each endpoint sends with its capture / cancel call.
IdemKey(kind) ==
    CASE kind \in ConfirmKinds -> "capture:pi"
      [] kind = "cron:capture" -> "cron-capture:pi"
      [] kind = "cron:cancel" -> "cron-cancel:pi"
      [] kind = "cancel_order" -> "buyer-cancel:pi"
      [] kind = "report_issue" -> "cancel:pi"
      [] OTHER -> ""

\* platformFeePerTicket = price * 0.05 + 0.75; payoutPerTicket = max(0, price
\* - fee); amount = Math.round(payoutPerTicket * qty * 100).  Prices in cents.
TotalPayoutCents(price, qty) ==
    IF 95 * price - 7500 <= 0 THEN 0
    ELSE (qty * (95 * price - 7500) + 50) \div 100

\* if (sellerAccountId && totalPayout > 0 && chargeId): the authorized intent
\* always has its latest_charge.
ShouldTransfer(s) == s.seller /\ TotalPayoutCents(s.price, s.qty) > 0

ConfirmReceived_Retrieve(r) ==
    /\ Free(r)
    /\ \E k \in ConfirmKinds :
         LET d == ConfirmDecision(pi.status, pi.meta.fep_confirm_deadline, now) IN
         IF d = "capture" THEN Enter(r, k, "capture") ELSE Answer(r, k, d)
    /\ UNCHANGED <<now, session, pi, idem, events, stats, remaining>>
    /\ UNCHANGED <<orders, run, quote, listings>>

ConfirmReceived_Capture(r) ==
    /\ \E k \in ConfirmKinds :
         /\ At(r, k, "capture")
         /\ \E o \in Outcomes :
              /\ ProviderCapture(IdemKey(k), o)
              /\ IF CaptureReply(IdemKey(k), o) = "ok"
                 THEN Goto(r, IF k = "confirm_payout" /\ ShouldTransfer(session)
                              THEN "transfer" ELSE "update")
                 ELSE Finish(r, "500")
    /\ UNCHANGED <<now, session, remaining>>
    /\ UNCHANGED <<orders, run, quote, listings>>

ConfirmReceived_Transfer(r) ==
    /\ At(r, "confirm_payout", "transfer")
    /\ \E o \in Outcomes :
         /\ ProviderTransfer(o)
         /\ IF o = "ok" THEN Goto(r, "update")
            ELSE Finish(r, "500")
    /\ UNCHANGED <<now, session, remaining>>
    /\ UNCHANGED <<orders, run, quote, listings>>

ConfirmReceived_Update(r) ==
    /\ \E k \in ConfirmKinds : At(r, k, "update")
    /\ \E o \in Outcomes :
         /\ ProviderUpdate([req[r].snap.meta EXCEPT
                              !.fep_status = "captured",
                              !.fep_captured_at = Stamp(req[r].t)], o)
         /\ IF UpdateReply(o) = "ok" THEN Finish(r, "captured")
            ELSE Finish(r, "500")
    /\ UNCHANGED <<now, session, remaining>>
    /\ UNCHANGED <<orders, run, quote, listings>>

(***************************************************************************)
(* api/capture-order.js                                                    *)
(***************************************************************************)
CaptureOrderDecision(status) ==
    IF status = "none" THEN "400"
    ELSE IF status # "requires_capture" THEN "409"
    ELSE "capture"

\* decrementInventoryFile: clamp at zero rather than go negative.
DecrementInventory(rem, qty) == IF qty > rem THEN 0 ELSE rem - qty

CaptureOrder_Retrieve(r) ==
    /\ Free(r)
    /\ LET d == CaptureOrderDecision(pi.status) IN
       IF d = "capture" THEN Enter(r, "capture_order", "capture")
       ELSE Answer(r, "capture_order", d)
    /\ UNCHANGED <<now, session, pi, idem, events, stats, remaining>>
    /\ UNCHANGED <<orders, run, quote, listings>>

CaptureOrder_Capture(r) ==
    /\ At(r, "capture_order", "capture")
    /\ \E o \in Outcomes :
         /\ ProviderCapture(IdemKey("capture_order"), o)
         /\ IF CaptureReply(IdemKey("capture_order"), o) = "ok"
            THEN /\ Finish(r, "captured")
                 /\ remaining' = DecrementInventory(remaining, session.qty)
            ELSE /\ Finish(r, "400")
                 /\ UNCHANGED remaining
    /\ UNCHANGED <<now, session>>
    /\ UNCHANGED <<orders, run, quote, listings>>

(***************************************************************************)
(* api/cancel-order.js                                                     *)
(***************************************************************************)
\* Mutant: only an intent that is already canceled is refused as not
\* cancelable.
CancelDecision_CanceledOnly(status, fepStatus) ==
    IF status = "none" THEN "404"
    ELSE IF status = "canceled" THEN "400"
    ELSE IF fepStatus = "sent" THEN "409:sent"
    ELSE IF fepStatus = "on_hold" THEN "409:on_hold"
    ELSE "cancel"

CancelDecision(status, fepStatus) ==
    IF status = "none" THEN "404"
    ELSE IF status # "requires_capture" THEN "400"
    ELSE IF fepStatus = "sent" THEN "409:sent"
    ELSE IF fepStatus = "on_hold" THEN "409:on_hold"
    ELSE "cancel"

CancelOrder_Retrieve(r) ==
    /\ Free(r)
    /\ LET d == CancelDecision(pi.status, pi.meta.fep_status) IN
       IF d = "cancel" THEN Enter(r, "cancel_order", "cancel")
       ELSE Answer(r, "cancel_order", d)
    /\ UNCHANGED <<now, session, pi, idem, events, stats, remaining>>
    /\ UNCHANGED <<orders, run, quote, listings>>

CancelOrder_Cancel(r) ==
    /\ At(r, "cancel_order", "cancel")
    /\ \E o \in Outcomes :
         /\ ProviderCancel(IdemKey("cancel_order"), o)
         /\ IF CancelReply(IdemKey("cancel_order"), o) = "ok"
            THEN Goto(r, "update")
            ELSE Finish(r, "500")
    /\ UNCHANGED <<now, session, remaining>>
    /\ UNCHANGED <<orders, run, quote, listings>>

CancelOrder_Update(r) ==
    /\ At(r, "cancel_order", "update")
    /\ \E o \in Outcomes :
         /\ ProviderUpdate([req[r].snap.meta EXCEPT
                              !.fep_status = "canceled",
                              !.fep_canceled_at = Stamp(now)], o)
         /\ IF UpdateReply(o) = "ok" THEN Finish(r, "ok")
            ELSE Finish(r, "500")
    /\ UNCHANGED <<now, session, remaining>>
    /\ UNCHANGED <<orders, run, quote, listings>>

(***************************************************************************)
(* api/report-issue.js                                                     *)
(***************************************************************************)
ReportDecision(status) ==
    IF status = "none" THEN "404"
    ELSE IF status = "succeeded" THEN "400:captured"
    ELSE IF status = "canceled" THEN "alreadyCanceled"
    ELSE IF status # "requires_capture" THEN "400"
    ELSE "cancel"

ReportIssue_Retrieve(r) ==
    /\ Free(r)
    /\ LET d == ReportDecision(pi.status) IN
       IF d = "cancel" THEN Enter(r, "report_issue", "update")
       ELSE Answer(r, "report_issue", d)
    /\ UNCHANGED <<now, session, pi, idem, events, stats, remaining>>
    /\ UNCHANGED <<orders, run, quote, listings>>

\* Mutant: the snapshot written back with the cancel timestamp only.
ReportIssueMeta_NoMarker(meta, t) ==
    [meta EXCEPT !.fep_canceled_at = Stamp(t)]

\* metadata: { ...pi.metadata, fep_status: "issue_reported", fep_canceled_at }
ReportIssueMeta(meta, t) ==
    [meta EXCEPT !.fep_status = "issue_reported", !.fep_canceled_at = Stamp(t)]

\* "Mark metadata then cancel the auth"
ReportIssue_Update(r) ==
    /\ At(r, "report_issue", "update")
    /\ \E o \in Outcomes :
         /\ ProviderUpdate(ReportIssueMeta(req[r].snap.meta, req[r].t), o)
         /\ IF UpdateReply(o) = "ok" THEN Goto(r, "cancel")
            ELSE Finish(r, "500")
    /\ UNCHANGED <<now, session, remaining>>
    /\ UNCHANGED <<orders, run, quote, listings>>

ReportIssue_Cancel(r) ==
    /\ At(r, "report_issue", "cancel")
    /\ \E o \in Outcomes :
         /\ ProviderCancel(IdemKey("report_issue"), o)
         /\ IF CancelReply(IdemKey("report_issue"), o) = "ok"
            THEN Finish(r, "canceled")
            ELSE Finish(r, "500")
    /\ UNCHANGED <<now, session, remaining>>
    /\ UNCHANGED <<orders, run, quote, listings>>

(***************************************************************************)
(* api/mark-sent.js                                                        *)
(***************************************************************************)
IsOnHold(fepStatus) == fepStatus \in {"on_hold", "issue_reported", "dispute"}

\* Mutant: the hold check left out.
MarkSentDecision_NoHoldCheck(status, fepStatus) ==
    IF status = "none" THEN "404"
    ELSE IF status # "requires_capture" THEN "400"
    ELSE IF fepStatus = "sent" THEN "alreadySent"
    ELSE "update"

MarkSentDecision(status, fepStatus) ==
    IF status = "none" THEN "404"
    ELSE IF status # "requires_capture" THEN "400"
    ELSE IF IsOnHold(fepStatus) THEN "409"
    ELSE IF fepStatus = "sent" THEN "alreadySent"
    ELSE "update"

MarkSent_Retrieve(r) ==
    /\ Free(r)
    /\ LET d == MarkSentDecision(pi.status, pi.meta.fep_status) IN
       IF d = "update" THEN Enter(r, "mark_sent", "update")
       ELSE Answer(r, "mark_sent", d)
    /\ UNCHANGED <<now, session, pi, idem, events, stats, remaining>>
    /\ UNCHANGED <<orders, run, quote, listings>>

MarkSent_Update(r) ==
    /\ At(r, "mark_sent", "update")
    /\ \E o \in Outcomes :
         /\ ProviderUpdate([req[r].snap.meta EXCEPT
                              !.fep_status = "sent",
                              !.fep_sent_at = Stamp(now)], o)
         /\ IF UpdateReply(o) = "ok" THEN Finish(r, "ok")
            ELSE Finish(r, "500")
    /\ UNCHANGED <<now, session, remaining>>
    /\ UNCHANGED <<orders, run, quote, listings>>

(***************************************************************************)
(* api/cron-auto-release.js: the release scheduler's sweep.                *)
(***************************************************************************)
\* The search returns only requires_capture intents; then the deadline test.
CronDecision(status, meta, t) ==
    IF status # "requires_capture" THEN "none_found"
    ELSE IF meta.fep_confirm_deadline = 0 THEN "no_deadline"
    ELSE IF t < meta.fep_confirm_deadline THEN "not_due"
    ELSE "due"

\* Mutant: only the fep_status on_hold counts as a hold.
CronAction_OnHoldOnly(fepStatus) == IF fepStatus = "on_hold" THEN "cancel" ELSE "capture"

\* if (isOnHold) cancel, else capture
CronAction(fepStatus) == IF IsOnHold(fepStatus) THEN "cancel" ELSE "capture"

CronAutoRelease_Search(r) ==
    /\ Free(r)
    /\ LET d == CronDecision(pi.status, pi.meta, now) IN
       IF d = "due" THEN Enter(r, "cron", "act") ELSE Answer(r, "cron", d)
    /\ UNCHANGED <<now, session, pi, idem, events, stats, remaining>>
    /\ UNCHANGED <<orders, run, quote, listings>>

\* e.code === "payment_intent_unexpected_state" counts as skipped.
CronAutoRelease_Act(r) ==
    /\ At(r, "cron", "act")
    /\ LET a == CronAction(req[r].snap.meta.fep_status) IN
       \E o \in Outcomes :
         IF a = "cancel"
         THEN /\ ProviderCancel(IdemKey("cron:cancel"), o)
              /\ LET rep == CancelReply(IdemKey("cron:cancel"), o) IN
                 IF rep = "ok" THEN Goto(r, "update")
                 ELSE Finish(r, IF rep = "unexpected_state" THEN "skipped"
                                ELSE "error")
         ELSE /\ ProviderCapture(IdemKey("cron:capture"), o)
              /\ LET rep == CaptureReply(IdemKey("cron:capture"), o) IN
                 IF rep = "ok" THEN Goto(r, "update")
                 ELSE Finish(r, IF rep = "unexpected_state" THEN "skipped"
                                ELSE "error")
    /\ UNCHANGED <<now, session, remaining>>
    /\ UNCHANGED <<orders, run, quote, listings>>

CronAutoRelease_Update(r) ==
    /\ At(r, "cron", "update")
    /\ LET a == CronAction(req[r].snap.meta.fep_status)
           final == IF a = "cancel" THEN "canceled" ELSE "captured" IN
       \E o \in Outcomes :
         /\ ProviderUpdate([req[r].snap.meta EXCEPT !.fep_status = final], o)
         /\ IF UpdateReply(o) = "ok" THEN Finish(r, final)
            ELSE Finish(r, "error")
    /\ UNCHANGED <<now, session, remaining>>
    /\ UNCHANGED <<orders, run, quote, listings>>

(***************************************************************************)
(* api/webhooks/stripe.js: checkout.session.completed.  The handler        *)
(* answers 200 whether or not the update succeeds.                         *)
(***************************************************************************)
\* const deadline = Math.floor(Date.now() / 1000) + 72 * 3600
WebhookDeadline(t) == t + DEFAULT_ESCROW_SECS

\* The metadata keys the checkout.session.completed handler writes.
CompletedUpdate(meta, t) ==
    [NoMeta EXCEPT !.fep_status = "authorized",
                   !.fep_confirm_deadline = WebhookDeadline(t)]

WebhookStripe_Completed(r) ==
    /\ Free(r)
    /\ events.completed.sent
    /\ \E o \in Outcomes : ProviderUpdate(CompletedUpdate(pi.meta, now), o)
    /\ Answer(r, "webhook", "200")
    /\ UNCHANGED <<now, session, remaining>>
    /\ UNCHANGED <<orders, run, quote, listings>>

(***************************************************************************)
(* Signature verification, the same in both revisions of the webhook.  The *)
(* webhook actions above and below are deliveries that constructEvent      *)
(* accepted; Webhook_Unverified is a delivery of a checkout.session.       *)
(* completed payload for the order that cannot be verified: the signature  *)
(* header does not match the secret (anybody can post one), or the         *)
(* deployment has no STRIPE_WEBHOOK_SECRET.                                *)
(***************************************************************************)
\* Mutant: without a secret the payload is parsed and processed unverified.
WebhookVerdict_NoSecretAccepts(secretSet, sigValid) ==
    IF ~secretSet THEN "process"
    ELSE IF ~sigValid THEN "400"
    ELSE "process"

\* if (!WHSEC) return 500; constructEvent throws -> 400; else the switch.
WebhookVerdict(secretSet, sigValid) ==
    IF ~secretSet THEN "500"
    ELSE IF ~sigValid THEN "400"
    ELSE "process"

Webhook_Unverified(r) ==
    /\ Free(r)
    /\ \E secretSet \in BOOLEAN :
         LET v == WebhookVerdict(secretSet, FALSE) IN
         IF v = "process"
         THEN /\ \E o \in Outcomes : ProviderUpdate(CompletedUpdate(pi.meta, now), o)
              /\ Answer(r, "webhook_unverified", "200")
         ELSE /\ Answer(r, "webhook_unverified", v)
              /\ UNCHANGED <<pi, idem, events, stats>>
    /\ UNCHANGED <<now, session, remaining>>
    /\ UNCHANGED <<orders, run, quote, listings>>

(***************************************************************************)
(* The reconciling revision of the webhook (setEscrowDeadlineIfNeeded and  *)
(* the payment_intent.* events).  Every update error is swallowed.         *)
(***************************************************************************)
\* if (!manual || !isAuthorized || alreadyHasDeadline) return
EscrowDeadlineNeeded(status, meta) ==
    status = "requires_capture" /\ ~(meta.fep_confirm_deadline > 0)

Reconcile_Completed(r) ==
    /\ Free(r)
    /\ events.completed.sent
    /\ IF EscrowDeadlineNeeded(pi.status, pi.meta)
       THEN Enter(r, "wh_completed", "set")
       ELSE Answer(r, "wh_completed", "200")
    /\ UNCHANGED <<now, session, pi, idem, events, stats, remaining>>
    /\ UNCHANGED <<orders, run, quote, listings>>

Reconcile_Capturable(r) ==
    /\ Free(r)
    /\ events.capturable.sent
    /\ IF EscrowDeadlineNeeded(pi.status, pi.meta)
       THEN Enter(r, "wh_capturable", "set")
       ELSE Enter(r, "wh_capturable", "mark")
    /\ UNCHANGED <<now, session, pi, idem, events, stats, remaining>>
    /\ UNCHANGED <<orders, run, quote, listings>>

\* setEscrowDeadlineIfNeeded's update: the metadata it read, the status
\* marker and the deadline computed when it read.
SetEscrowDeadline(r) ==
    /\ \E k \in {"wh_completed", "wh_capturable"} :
         /\ At(r, k, "set")
         /\ IF k = "wh_completed" THEN Finish(r, "200")
            ELSE Goto(r, "mark")
    /\ \E o \in Outcomes :
         ProviderUpdate([req[r].snap.meta EXCEPT
                           !.fep_status = "authorized",
                           !.fep_confirm_deadline = WebhookDeadline(req[r].t)], o)
    /\ UNCHANGED <<now, session, remaining>>
    /\ UNCHANGED <<orders, run, quote, listings>>

\* amount_capturable_updated: the event's own metadata plus the marker.
Reconcile_MarkAuthorized(r) ==
    /\ At(r, "wh_capturable", "mark")
    /\ \E o \in Outcomes :
         ProviderUpdate([events.capturable.meta EXCEPT !.fep_status = "authorized"], o)
    /\ Finish(r, "200")
    /\ UNCHANGED <<now, session, remaining>>
    /\ UNCHANGED <<orders, run, quote, listings>>

Reconcile_Succeeded(r) ==
    /\ Free(r)
    /\ events.succeeded.sent
    /\ \E o \in Outcomes :
         ProviderUpdate([events.succeeded.meta EXCEPT
                           !.fep_status = "captured",
                           !.fep_captured_at = Stamp(now)], o)
    /\ Answer(r, "wh_succeeded", "200")
    /\ UNCHANGED <<now, session, remaining>>
    /\ UNCHANGED <<orders, run, quote, listings>>

Reconcile_Canceled(r) ==
    /\ Free(r)
    /\ events.canceled.sent
    /\ \E o \in Outcomes :
         ProviderUpdate([events.canceled.meta EXCEPT
                           !.fep_status = "canceled",
                           !.fep_canceled_at = Stamp(now)], o)
    /\ Answer(r, "wh_canceled", "200")
    /\ UNCHANGED <<now, session, remaining>>
    /\ UNCHANGED <<orders, run, quote, listings>>

(***************************************************************************)
(* Specifications.  Under Spec two invocations may overlap, their provider *)
(* calls interleaved in any order.  Under SeqSpec there is a single slot:  *)
(* each invocation returns before the next one starts.                     *)
(***************************************************************************)
Step(r) ==
    \/ ConfirmReceived_Retrieve(r)
    \/ ConfirmReceived_Capture(r)
    \/ ConfirmReceived_Transfer(r)
    \/ ConfirmReceived_Update(r)
    \/ CaptureOrder_Retrieve(r)
    \/ CaptureOrder_Capture(r)
    \/ CancelOrder_Retrieve(r)
    \/ CancelOrder_Cancel(r)
    \/ CancelOrder_Update(r)
    \/ ReportIssue_Retrieve(r)
    \/ ReportIssue_Update(r)
    \/ ReportIssue_Cancel(r)
    \/ MarkSent_Retrieve(r)
    \/ MarkSent_Update(r)
    \/ CronAutoRelease_Search(r)
    \/ CronAutoRelease_Act(r)
    \/ CronAutoRelease_Update(r)
    \/ WebhookStripe_Completed(r)
    \/ Webhook_Unverified(r)
    \/ Reconcile_Completed(r)
    \/ Reconcile_Capturable(r)
    \/ SetEscrowDeadline(r)
    \/ Reconcile_MarkAuthorized(r)
    \/ Reconcile_Succeeded(r)
    \/ Reconcile_Canceled(r)

Next ==
    \/ Tick
    \/ CreateCheckoutSession
    \/ CheckoutCompleted
    \/ \E r \in Slots : Step(r)

Spec == Init(Slots) /\ [][Next]_vars

SeqSpec == Init(SeqSlots) /\ [][Next]_vars

(***************************************************************************)
(* api/cron-auto-release.js over several orders: one run of the sweep,     *)
(* from its authorization to its response, with the search paginated and   *)
(* another actor finalizing orders while the run is in progress.           *)
(***************************************************************************)
MaxOrders == 3
OrderIds == 1 .. MaxOrders

\* paymentIntents.search({ query, limit: 100 }): the page size, scaled down
\* so that a listing of MaxOrders intents spans more than one page.
PageLimit == 2

\* The time of the run: Math.floor(Date.now() / 1000), read once.
SweepNow == 2

\* The intents a sweep can meet: authorized and due, reported and due,
\* authorized and not yet due, authorized without a stored deadline,
\* already captured.
OrderChoices ==
    {[status |-> "requires_capture", meta |-> [NoMeta EXCEPT !.fep_status = "authorized", !.fep_confirm_deadline = 1]],
     [status |-> "requires_capture", meta |-> [NoMeta EXCEPT !.fep_status = "issue_reported", !.fep_confirm_deadline = 1]],
     [status |-> "requires_capture", meta |-> [NoMeta EXCEPT !.fep_status = "authorized", !.fep_confirm_deadline = 3]],
     [status |-> "requires_capture", meta |-> [NoMeta EXCEPT !.fep_status = "authorized"]],
     [status |-> "succeeded", meta |-> [NoMeta EXCEPT !.fep_status = "captured", !.fep_confirm_deadline = 1]]}

NoResults ==
    [checked |-> 0, due |-> 0, captured |-> 0, canceled |-> 0,
     skipped_on_hold |-> 0, already_final |-> 0, errors |-> 0]

IdleRun ==
    [pc |-> "idle", hasKey |-> FALSE, page |-> {},
     snap |-> [o \in OrderIds |-> NoPI], cursor |-> 0, hasMore |-> FALSE,
     results |-> NoResults, log |-> <<>>, http |-> 0]

NoQuote == [pc |-> "idle"]

\* const hasKey = CRON_SECRET && req.query?.key === CRON_SECRET
HasKey(secretSet, key) == secretSet /\ key = "secret"

\* if (!isCron && !hasKey) return 403
CronAuthorized(isCron, hasKey) == isCron \/ hasKey

\* The handler's entry: a GET with or without the x-vercel-cron header, with
\* CRON_SECRET configured or not, with ?key= absent, right or wrong.
Cron_Request ==
    /\ run.pc = "idle"
    /\ \E isCron \in BOOLEAN, secretSet \in BOOLEAN, key \in {"", "secret", "other"} :
         LET hasKey == HasKey(secretSet, key) IN
         run' = [run EXCEPT
                   !.hasKey = hasKey,
                   !.pc = IF CronAuthorized(isCron, hasKey) THEN "search" ELSE "done",
                   !.http = IF CronAuthorized(isCron, hasKey) THEN 0 ELSE 403]
    /\ UNCHANGED <<now, session, pi, idem, events, req, stats, remaining, resp, started>>
    /\ UNCHANGED <<orders, quote, listings>>

\* query status:'requires_capture': the intents after the cursor that match.
Matching(cursor) ==
    {o \in OrderIds : o > cursor /\ orders[o].status = "requires_capture"}

\* One page: the first PageLimit matches after the cursor.
SearchPage(cursor) ==
    {o \in Matching(cursor) :
        Cardinality({q \in Matching(cursor) : q < o}) < PageLimit}

\* Mutant: a search that stops after its first page.
HasMore_FirstPageOnly(cursor) == FALSE

\* has_more of the page: matches remain after it.
HasMore(cursor) == Matching(cursor) \ SearchPage(cursor) # {}

LastOf(page, cursor) ==
    IF page = {} THEN cursor ELSE CHOOSE o \in page : \A q \in page : q <= o

\* for await (const pi of stripe.paymentIntents.search(...)): the iterator
\* fetches a page when it has none left in hand; a failed fetch throws into
\* the outer catch, which answers 500 with the counters so far.
Cron_Search ==
    /\ run.pc = "search"
    /\ \E o \in {"ok", "fail"} :
         IF o = "fail"
         THEN run' = [run EXCEPT !.pc = "done", !.http = 500]
         ELSE LET page == SearchPage(run.cursor) IN
              run' = [run EXCEPT
                        !.page = page,
                        !.snap = [q \in OrderIds |->
                                    IF q \in page THEN orders[q] ELSE run.snap[q]],
                        !.cursor = LastOf(page, run.cursor),
                        !.hasMore = HasMore(run.cursor),
                        !.pc = IF page = {} THEN "done" ELSE "visit",
                        !.http = IF page = {} THEN 200 ELSE 0]
    /\ UNCHANGED <<now, session, pi, idem, events, req, stats, remaining, resp, started>>
    /\ UNCHANGED <<orders, quote, listings>>

\* The provider's answer to a capture or cancel of an intent in `status`.
ActReply(status, o) ==
    IF o # "ok" THEN "error"
    ELSE IF status = "requires_capture" THEN "ok"
    ELSE "unexpected_state"

ActApplies(status, o) == o # "fail" /\ status = "requires_capture"

\* Mutant: every failure of the action is counted as an error.
VisitResult_EveryFailureAnError(d, a, act, upd) ==
    IF d = "none_found" THEN "already_final"
    ELSE IF d # "due" THEN d
    ELSE IF act = "unexpected_state" THEN "error"
    ELSE IF act # "ok" \/ upd # "ok" THEN "error"
    ELSE IF a = "cancel" THEN "canceled" ELSE "captured"

\* The loop body's outcome for one listed intent: the defensive status
\* test, the deadline tests, then the try/catch round the two calls.
VisitResult(d, a, act, upd) ==
    IF d = "none_found" THEN "already_final"
    ELSE IF d # "due" THEN d
    ELSE IF act = "unexpected_state" THEN "skipped_on_hold"
    ELSE IF act # "ok" \/ upd # "ok" THEN "error"
    ELSE IF a = "cancel" THEN "canceled" ELSE "captured"

Count(results, d, res) ==
    [results EXCEPT
       !.checked = @ + 1,
       !.due = @ + (IF d = "due" THEN 1 ELSE 0),
       !.captured = @ + (IF res = "captured" THEN 1 ELSE 0),
       !.canceled = @ + (IF res = "canceled" THEN 1 ELSE 0),
       !.skipped_on_hold = @ + (IF res = "skipped_on_hold" THEN 1 ELSE 0),
       !.already_final = @ + (IF res = "already_final" THEN 1 ELSE 0),
       !.errors = @ + (IF res = "error" THEN 1 ELSE 0)]

\* One pass of the loop body over the next listed intent, from the copy the
\* search returned: the action call, then the metadata update if it
\* succeeded.  The provider applies the call to the intent as it is now.
Cron_Visit ==
    /\ run.pc = "visit"
    /\ LET o == CHOOSE q \in run.page : \A p \in run.page : q <= p
           listed == run.snap[o]
           d == CronDecision(listed.status, listed.meta, now)
           a == CronAction(listed.meta.fep_status)
           final == IF a = "cancel" THEN "canceled" ELSE "captured"
           rest == run.page \ {o} IN
       \E oAct \in Outcomes, oUpd \in Outcomes :
         LET act == ActReply(orders[o].status, oAct)
             applied == d = "due" /\ ActApplies(orders[o].status, oAct)
             updated == d = "due" /\ act = "ok" /\ oUpd # "fail"
             upd == IF oUpd = "ok" THEN "ok" ELSE "error"
             res == VisitResult(d, a, act, upd) IN
         /\ d # "due" => oAct = "ok" /\ oUpd = "ok"
         /\ act # "ok" => oUpd = "ok"
         /\ orders' = [orders EXCEPT
                         ![o].status =
                            IF applied
                            THEN (IF a = "cancel" THEN "canceled" ELSE "succeeded")
                            ELSE @,
                         ![o].meta =
                            IF updated
                            THEN MergeMeta(@, [listed.meta EXCEPT !.fep_status = final])
                            ELSE @]
         /\ run' = [run EXCEPT
                      !.page = rest,
                      !.results = Count(@, d, res),
                      !.log = Append(@, [id |-> o, res |-> res, act |-> IF d = "due" THEN act ELSE ""]),
                      !.pc = IF rest # {} THEN "visit"
                             ELSE IF run.hasMore THEN "search" ELSE "done",
                      !.http = IF rest = {} /\ ~run.hasMore THEN 200 ELSE 0]
    /\ UNCHANGED <<now, session, pi, idem, events, req, stats, remaining, resp, started>>
    /\ UNCHANGED <<quote, listings>>

\* Another actor (the buyer's confirm-received or cancel-order, an
\* operator in the dashboard) finalizes an order between the moment the
\* search listed it and the moment the loop reaches it.
Concurrent_Finalize ==
    /\ run.pc = "visit"
    /\ \E o \in run.page, to \in {"succeeded", "canceled"} :
         /\ orders[o].status = "requires_capture"
         /\ orders' = [orders EXCEPT
                         ![o].status = to,
                         ![o].meta.fep_status =
                            IF to = "succeeded" THEN "captured" ELSE "canceled"]
    /\ UNCHANGED <<now, session, pi, idem, events, req, stats, remaining, resp, started>>
    /\ UNCHANGED <<run, quote, listings>>

SweepInit ==
    /\ now = SweepNow
    /\ session = NoSession
    /\ pi = NoPI
    /\ idem = {}
    /\ events = [completed |-> NoEvent, capturable |-> NoEvent,
                 succeeded |-> NoEvent, canceled |-> NoEvent]
    /\ req = [r \in Slots |-> [IdleReq EXCEPT !.pc = "off"]]
    /\ stats = [captureCalls |-> 0, captures |-> 0, cancelCalls |-> 0,
                cancels |-> 0, transfers |-> 0]
    /\ remaining = InitRemaining
    /\ resp = [kind |-> "none", res |-> ""]
    /\ started = 0
    /\ orders \in [OrderIds -> OrderChoices]
    /\ run = IdleRun
    /\ quote = NoQuote
    /\ listings = NoListings

SweepNext == Cron_Request \/ Cron_Search \/ Cron_Visit \/ Concurrent_Finalize

SweepSpec == SweepInit /\ [][SweepNext]_vars

(***************************************************************************)
(* api/create-checkout-session.js, in its three revisions, as arithmetic:  *)
(* validation, the +15% cap, the fee fields frozen in the metadata, the    *)
(* application fee; then the payout of confirm-received computed from      *)
(* that metadata.  Amounts of money in a request body are decimal USD,     *)
(* written here in mills (thousandths of a dollar); floating-point         *)
(* products are taken as exact.                                            *)
(***************************************************************************)
MaxQty == 3

BUYER_FEE_CENTS_PER_TICKET == 350
SELLER_FEE_FIXED == 75
MAX_QTY_PER_ORDER == 10
\* Fractions are kept in ten-thousandths: 0.05 is 500, "5" is 50000.
DEFAULT_SELLER_FEE_PCT == 500

\* "v1": api/create-checkout-session.js 1-180 (fixed fees, no split);
\* "v2": the same file from 182 (destination charge, clamped fee);
\* "v3": the copy in part_003 (direct charge, fee as computed).
Revisions == {"v1", "v2", "v3"}

Null == -1

\* Math.round(n / d) for n >= 0: halves go up.
Round(n, d) == (2 * n + d) \div (2 * d)

Max(a, b) == IF a >= b THEN a ELSE b
Min(a, b) == IF a <= b THEN a ELSE b

\* toCents(n): Number(n), null unless finite, else Math.round(num * 100).
toCents(x) == IF x.kind # "num" THEN Null ELSE Round(x.mills, 10)

\* "5" -> 0.05, "0.05" -> 0.05
normalizePercent(p) ==
    IF p <= 0 THEN 0 ELSE IF p >= 10000 THEN p \div 100 ELSE p

\* The seller fee percent each revision computes with, from the
\* SELLER_FEE_PERCENT setting (0 when unset).
SellerFeePct(rev, envPct) ==
    IF rev = "v1" THEN DEFAULT_SELLER_FEE_PCT
    ELSE IF rev = "v2"
         THEN normalizePercent(IF envPct = 0 THEN DEFAULT_SELLER_FEE_PCT ELSE envPct)
    ELSE IF envPct = 0 THEN DEFAULT_SELLER_FEE_PCT ELSE envPct

\* qty: parseInt and a 400 outside 1..10 in the first revision, a clamp to
\* 1..MAX_QTY_PER_ORDER in the others.  Null is the 400.
QtyInt(rev, qty) ==
    IF rev = "v1"
    THEN (IF qty < 1 \/ qty > 10 THEN Null ELSE qty)
    ELSE Max(1, Min(MAX_QTY_PER_ORDER, qty))

\* face !== undefined && face !== null && face !== ""
FaceSupplied(face) == face.kind # "absent"

\* const cap = Math.round(faceCents * 1.15)
CapCents(faceCents) == Round(faceCents * 115, 100)

\* The cap is enforced when the face value converts to a positive amount.
ExceedsCap(face, unitAmount) ==
    /\ FaceSupplied(face)
    /\ toCents(face) # Null /\ toCents(face) > 0
    /\ unitAmount > CapCents(toCents(face))

\* The handler's answer before any call to the provider: 400 or go on.
Validate(rev, b) ==
    IF rev = "v2" /\ ~b.seller THEN 400
    ELSE IF QtyInt(rev, b.qty) = Null THEN 400
    ELSE IF toCents(b.price) = Null \/ toCents(b.price) <= 0 THEN 400
    ELSE IF ExceedsCap(b.face, toCents(b.price)) THEN 400
    ELSE 0

\* Mutant: the fixed part of the seller fee left out.
SellerFeePerTicketCents_NoFixed(unitAmount, pct) == Round(unitAmount * pct, 10000)

\* Math.round(unitAmount * SELLER_FEE_PCT) + SELLER_FEE_FIXED
SellerFeePerTicketCents(unitAmount, pct) ==
    Round(unitAmount * pct, 10000) + SELLER_FEE_FIXED

\* application_fee_amount: not sent by the first revision; buyer fee plus
\* seller fee, under the charge by at least one cent, in the second; the
\* sum as computed, and only for a connected seller, in part_003.
ApplicationFee(rev, seller, platformFee, gross) ==
    IF rev = "v1" THEN [sent |-> FALSE, cents |-> 0]
    ELSE IF rev = "v2"
         THEN [sent |-> TRUE,
               cents |-> IF platformFee >= gross THEN Max(0, gross - 1)
                         ELSE platformFee]
    ELSE [sent |-> seller, cents |-> IF seller THEN platformFee ELSE 0]

NoFees ==
    [unitAmount |-> 0, qty |-> 0, seller_fee_per_ticket_cents |-> 0,
     seller_fee_total_cents |-> 0, buyer_fee_total_cents |-> 0,
     platformFee |-> 0, gross |-> 0,
     application_fee_amount |-> [sent |-> FALSE, cents |-> 0]]

\* The fee fields of an accepted request.
Fees(rev, b, envPct) ==
    LET unitAmount == toCents(b.price)
        qtyInt == QtyInt(rev, b.qty)
        perTicket == SellerFeePerTicketCents(unitAmount, SellerFeePct(rev, envPct))
        sellerTotal == perTicket * qtyInt
        buyerTotal == BUYER_FEE_CENTS_PER_TICKET * qtyInt
        gross == unitAmount * qtyInt + buyerTotal IN
    [unitAmount |-> unitAmount, qty |-> qtyInt,
     seller_fee_per_ticket_cents |-> perTicket,
     seller_fee_total_cents |-> sellerTotal,
     buyer_fee_total_cents |-> buyerTotal,
     platformFee |-> sellerTotal + buyerTotal,
     gross |-> gross,
     application_fee_amount |->
        ApplicationFee(rev, b.seller, sellerTotal + buyerTotal, gross)]

MoneyChoices(S) ==
    {[kind |-> "text", mills |-> 0]} \cup {[kind |-> "num", mills |-> m] : m \in S}

\* price: $0.50, $10.004, $10.10, $11.50, $11.51, $20.00, or not a number.
PriceChoices == MoneyChoices({500, 10004, 10100, 11500, 11510, 20000})

\* face: absent, not a number, 0, $10.00.
FaceChoices == {[kind |-> "absent", mills |-> 0]} \cup MoneyChoices({0, 10000})

\* SELLER_FEE_PERCENT: unset, "0.1", "5".
EnvPctChoices == {0, 1000, 50000}

FeeInit ==
    /\ now = 1
    /\ session = NoSession
    /\ pi = NoPI
    /\ idem = {}
    /\ events = [completed |-> NoEvent, capturable |-> NoEvent,
                 succeeded |-> NoEvent, canceled |-> NoEvent]
    /\ req = [r \in Slots |-> [IdleReq EXCEPT !.pc = "off"]]
    /\ stats = [captureCalls |-> 0, captures |-> 0, cancelCalls |-> 0,
                cancels |-> 0, transfers |-> 0]
    /\ remaining = InitRemaining
    /\ resp = [kind |-> "none", res |-> ""]
    /\ started = 0
    /\ orders = [o \in {} |-> NoPI]
    /\ run = [pc |-> "idle"]
    /\ listings = NoListings
    /\ \E rev \in Revisions, envPct \in EnvPctChoices,
          price \in PriceChoices, face \in FaceChoices,
          qty \in 0 .. MaxQty, seller \in BOOLEAN :
         quote = [pc |-> "request", rev |-> rev, envPct |-> envPct,
                  body |-> [price |-> price, face |-> face, qty |-> qty,
                            seller |-> seller],
                  http |-> 0, created |-> FALSE, fees |-> NoFees,
                  transfer |-> [sent |-> FALSE, cents |-> 0]]

\* Validation: a 400 leaves before stripe.checkout.sessions.create.
Checkout_Validate ==
    /\ quote.pc = "request"
    /\ LET v == Validate(quote.rev, quote.body) IN
       quote' = [quote EXCEPT !.pc = IF v = 400 THEN "rejected" ELSE "fees",
                              !.http = v]
    /\ UNCHANGED <<now, session, pi, idem, events, req, stats, remaining, resp, started>>
    /\ UNCHANGED <<orders, run, listings>>

\* Fee math, payload, stripe.checkout.sessions.create: the fee fields are
\* frozen in the metadata of the session and of its PaymentIntent.
Checkout_Create ==
    /\ quote.pc = "fees"
    /\ \E o \in {"ok", "fail"} :
         quote' = IF o = "ok"
                  THEN [quote EXCEPT !.pc = "authorized", !.http = 200,
                                     !.created = TRUE,
                                     !.fees = Fees(quote.rev, quote.body, quote.envPct)]
                  ELSE [quote EXCEPT !.pc = "failed", !.http = 500]
    /\ UNCHANGED <<now, session, pi, idem, events, req, stats, remaining, resp, started>>
    /\ UNCHANGED <<orders, run, listings>>

\* part_006: price * 0.05 + 0.75 per ticket off the price, times qty,
\* Math.round(totalPayout * 100), from md.price (USD) and md.qty.
TransferAmountCents(priceMills, qty) ==
    IF 95 * priceMills - 75000 <= 0 THEN 0
    ELSE Round(Max(1, qty) * (95 * priceMills - 75000), 1000)

\* confirm-received with payout, after the capture: the transfer is made
\* for a connected seller and a positive payout.
Confirm_Payout ==
    /\ quote.pc = "authorized"
    /\ LET amount == TransferAmountCents(quote.body.price.mills, quote.fees.qty) IN
       quote' = [quote EXCEPT
                   !.pc = "captured",
                   !.transfer = [sent |-> quote.body.seller /\ amount > 0,
                                 cents |-> IF quote.body.seller THEN amount ELSE 0]]
    /\ UNCHANGED <<now, session, pi, idem, events, req, stats, remaining, resp, started>>
    /\ UNCHANGED <<orders, run, listings>>

FeeNext == Checkout_Validate \/ Checkout_Create \/ Confirm_Payout

FeeSpec == FeeInit /\ [][FeeNext]_vars

(***************************************************************************)
(* api/session-status.js: the status poll and its update of the listing's  *)
(* file, guarded by the ledger of processed intents.  The handler awaits   *)
(* between reading the ledger, reading the listings and writing both.      *)
(***************************************************************************)
\* const on_hold = ["on_hold", "issue_reported", "dispute"].includes(fep_status);
\* can_buyer_confirm = requires_capture && !on_hold && !succeeded && !canceled
can_buyer_confirm(status, fepStatus) ==
    status = "requires_capture" /\ ~IsOnHold(fepStatus)

\* can_buyer_cancel = requires_capture && fep_status === "authorized" && ...
can_buyer_cancel(status, fepStatus) ==
    status = "requires_capture" /\ fepStatus = "authorized"

\* let deadline = Number(meta.fep_confirm_deadline || 0);
\* if (!Number.isFinite(deadline) || deadline <= createdSec)
\*     deadline = createdSec + DEFAULT_ESCROW_SECS
ReportedDeadline(deadline, createdSec) ==
    IF deadline <= createdSec THEN createdSec + DEFAULT_ESCROW_SECS ELSE deadline

SessionStatus_Retrieve(r) ==
    /\ Free(r)
    /\ IF pi.status = "none" THEN Answer(r, "session_status", "404")
       ELSE IF pi.status = "succeeded" /\ session.qty > 0
            THEN Enter(r, "session_status", "ledger")
       ELSE Answer(r, "session_status", "200")
    /\ UNCHANGED <<now, session, pi, idem, events, stats, remaining>>
    /\ UNCHANGED <<orders, run, quote, listings>>

\* if (!ledger.processed.includes(pi.id))
SessionStatus_ReadLedger(r) ==
    /\ At(r, "session_status", "ledger")
    /\ IF listings.processed THEN Finish(r, "200") ELSE Goto(r, "listing")
    /\ UNCHANGED <<now, session, pi, idem, events, stats, remaining>>
    /\ UNCHANGED <<orders, run, quote, listings>>

\* const listings = await readJsonSafe(LISTINGS_FILE, [])
SessionStatus_ReadListings(r) ==
    /\ At(r, "session_status", "listing")
    /\ listings' = [listings EXCEPT !.read[r] = listings.remaining]
    /\ Goto(r, "write")
    /\ UNCHANGED <<now, session, pi, idem, events, stats, remaining>>
    /\ UNCHANGED <<orders, run, quote>>

\* purchased = Math.min(qty, Math.max(0, beforeRemaining));
\* afterRemaining = Math.max(0, beforeRemaining - purchased)
AfterRemaining(beforeRemaining, qty) ==
    Max(0, beforeRemaining - Min(qty, Max(0, beforeRemaining)))

\* writeJsonSafe(LISTINGS_FILE, listings); ledger.processed.push(pi.id);
\* writeJsonSafe(LEDGER_FILE, ledger)
SessionStatus_Write(r) ==
    /\ At(r, "session_status", "write")
    /\ listings' = [listings EXCEPT
                      !.remaining = AfterRemaining(listings.read[r], session.qty),
                      !.processed = TRUE,
                      !.read[r] = 0]
    /\ Finish(r, "200:applied")
    /\ UNCHANGED <<now, session, pi, idem, events, stats, remaining>>
    /\ UNCHANGED <<orders, run, quote>>

\* An order paid for and awaiting capture, or captured by the buyer's
\* confirmation; from there capture-order calls and status polls, which
\* may overlap.
PollInit ==
    /\ now = 1
    /\ session = [open |-> TRUE,
                  meta |-> SessionMeta("escrow", 1, DEFAULT_ESCROW_SECS),
                  seller |-> FALSE, price |-> 1000, qty |-> 2, created |-> 1]
    /\ \E captured \in BOOLEAN :
         pi = IF captured
              THEN [status |-> "succeeded",
                    meta |-> [session.meta EXCEPT !.fep_status = "captured",
                                                  !.fep_captured_at = Stamp(1)]]
              ELSE [status |-> "requires_capture", meta |-> session.meta]
    /\ idem = {}
    /\ events = [completed |-> NoEvent, capturable |-> NoEvent,
                 succeeded |-> NoEvent, canceled |-> NoEvent]
    /\ req = [r \in Slots |-> IdleReq]
    /\ stats = [captureCalls |-> 0, captures |-> 0, cancelCalls |-> 0,
                cancels |-> 0, transfers |-> 0]
    /\ remaining = InitRemaining
    /\ resp = [kind |-> "none", res |-> ""]
    /\ started = 0
    /\ orders = [o \in {} |-> NoPI]
    /\ run = [pc |-> "idle"]
    /\ quote = NoQuote
    /\ \E n \in 1 .. InitRemaining :
         listings = [NoListings EXCEPT !.start = n, !.remaining = n]

PollStep(r) ==
    \/ CaptureOrder_Retrieve(r)
    \/ CaptureOrder_Capture(r)
    \/ SessionStatus_Retrieve(r)
    \/ SessionStatus_ReadLedger(r)
    \/ SessionStatus_ReadListings(r)
    \/ SessionStatus_Write(r)

PollNext == \E r \in Slots : PollStep(r)

PollSpec == PollInit /\ [][PollNext]_vars

(***************************************************************************)
(* Vocabulary of the properties.                                           *)
(***************************************************************************)
InFlight(r, kinds) == req[r].pc \notin {"idle", "off"} /\ req[r].kind \in kinds

\* This step is the start of an invocation of endpoint k: it either answers
\* at once or occupies a slot.
Began(k) ==
    /\ started' = started + 1
    /\ \/ req' = req /\ resp'.kind = k
       \/ \E r \in Slots : req[r].pc = "idle" /\ req'[r].pc # "idle" /\ req'[r].kind = k

\* This step is invocation r returning res.
Returned(r, res) ==
    req[r].pc \notin {"idle", "off"} /\ req'[r].pc = "idle" /\ resp'.res = res

\* Two confirm-received invocations overlap, both having read the order
\* authorized and within its deadline.
ConfirmRace ==
    \E r1, r2 \in Slots :
        r1 # r2 /\ InFlight(r1, ConfirmKinds) /\ InFlight(r2, ConfirmKinds)

(***************************************************************************)
(* C1.  Two concurrent confirm-received requests.                          *)
(***************************************************************************)
\* C1 as stated: of two concurrent confirm-received requests on an authorized
\* order before its deadline, exactly one issues a capture call to the
\* provider (the other observes alreadyCaptured).
C1_ExactlyOneCaptureCall == ConfirmRace => stats.captureCalls <= 1

\* C1 as amended: the capture takes effect at most once; a confirm-received
\* request whose capture call was answered ok finds the order captured under
\* the key capture:<id> (the second call is answered from the saved response),
\* and alreadyCaptured is returned only for an order that is captured.
C1_CapturedOnce ==
    /\ stats.captures <= 1
    /\ \A r \in Slots :
         InFlight(r, ConfirmKinds) /\ req[r].pc \in {"transfer", "update"}
           => /\ pi.status = "succeeded"
              /\ stats.captures = 1
              /\ "capture:pi" \in idem
    /\ resp.kind \in ConfirmKinds /\ resp.res = "alreadyCaptured"
         => pi.status = "succeeded" /\ stats.captures = 1

\* Both racing requests have had their capture call answered ok; one capture.
C1_Witness ==
    /\ \A r \in Slots :
         InFlight(r, ConfirmKinds) /\ req[r].pc \in {"transfer", "update"}
    /\ stats.captureCalls = 2
    /\ stats.captures = 1


(***************************************************************************)
(* C2.  Release requested twice in sequence.                               *)
(***************************************************************************)
\* The order has a seller payout to transfer.
PayoutDue == ShouldTransfer(session)

\* C2 as stated: after confirm-received (or the scheduler's auto-release) has
\* released an order (captured it and recorded fep_status captured) and is
\* invoked a second time, there has been exactly one capture and exactly one
\* transfer of the seller payout.
C2_OneCaptureOneTransfer ==
    /\ pi.meta.fep_status = "captured" /\ "capture:pi" \in idem
         /\ resp.kind \in ConfirmKinds /\ resp.res = "alreadyCaptured"
         => stats.captures = 1 /\ (PayoutDue => stats.transfers = 1)
    /\ pi.meta.fep_status = "captured" /\ "cron-capture:pi" \in idem
         /\ resp.kind = "cron" /\ resp.res = "none_found"
         => stats.captures = 1 /\ (PayoutDue => stats.transfers = 1)


(***************************************************************************)
(* C3.  Terminal fep_status.                                               *)
(***************************************************************************)
Terminal(fepStatus) == fepStatus \in {"captured", "canceled"}

\* C3 as stated: once the persisted fep_status is captured or canceled, no
\* later operation (a redelivered or late webhook included) changes it.
C3_TerminalStatusKept ==
    [][Terminal(pi.meta.fep_status) => pi'.meta.fep_status = pi.meta.fep_status]_vars


(***************************************************************************)
(* C4.  Cancellation of a captured order.                                  *)
(***************************************************************************)
CancelKinds == {"cancel_order", "report_issue"}

\* C4: a cancel-order or report-issue request that arrives when the order is
\* already captured is rejected with an error (400), issues no provider call
\* (no cancel, no metadata update), and leaves the intent's status and
\* metadata as they were.
C4_CapturedNotCancelable ==
    [][pi.status = "succeeded" /\ (\E k \in CancelKinds : Began(k))
         => /\ req' = req
            /\ resp'.res \in {"400", "400:captured"}
            /\ UNCHANGED <<pi, idem, stats, events>>]_vars

\* A cancel-order request on a captured order was refused, no cancel call
\* having ever been made.
C4_Witness ==
    /\ pi.status = "succeeded"
    /\ pi.meta.fep_status = "captured"
    /\ resp = [kind |-> "cancel_order", res |-> "400"]
    /\ stats.cancelCalls = 0


(***************************************************************************)
(* C5.  Buyer confirmation while the order is on hold.                     *)
(***************************************************************************)
\* C5 as stated: a buyer confirmation (confirm-received or capture-order)
\* that reads the order on hold and awaiting capture is rejected: no such
\* request is on its way to, or past, the provider's capture call.
C5_NoCaptureWhileOnHold ==
    \A r \in Slots :
        InFlight(r, ConfirmKinds \cup {"capture_order"})
          => ~IsOnHold(req[r].snap.meta.fep_status)


(***************************************************************************)
(* C6, C7.  The stored confirm deadline.                                   *)
(***************************************************************************)
\* C6 as stated: the confirm deadline of an order is set exactly once; no
\* webhook or sync event writes a different value afterwards.
C6_DeadlineSetOnce ==
    [][pi.meta.fep_confirm_deadline # 0
         => pi'.meta.fep_confirm_deadline = pi.meta.fep_confirm_deadline]_vars

\* C7 as stated: the stored confirm deadline of an order never decreases,
\* whatever the configured escrow window (windows above 72 h included).
C7_DeadlineNeverDecreases ==
    [][pi'.meta.fep_confirm_deadline >= pi.meta.fep_confirm_deadline]_vars


(***************************************************************************)
(* C8.  The buyer reports an issue.                                        *)
(***************************************************************************)
\* This step is invocation r of endpoint k moving on or returning.
StepOf(r, k) == InFlight(r, {k}) /\ req'[r] # req[r]

SweepOnHold(r) == InFlight(r, {"cron"}) /\ IsOnHold(req[r].snap.meta.fep_status)

\* C9: a sweep that finds an order on hold at or after its deadline asks the
\* provider to cancel the authorization and never to capture it; when the
\* cancel call is answered ok the intent is canceled, and when the sweep
\* reports the order canceled its fep_status is canceled too.  No capture
\* has then taken effect for that order.
C9_OnHoldExpiryCancels ==
    [][\A r \in Slots :
         SweepOnHold(r) /\ req'[r] # req[r]
           => /\ now >= req[r].snap.meta.fep_confirm_deadline
              /\ stats'.captureCalls = stats.captureCalls
              /\ req[r].pc = "act"
                   => /\ stats'.cancelCalls = stats.cancelCalls + 1
                      /\ req'[r].pc = "update" => pi'.status = "canceled"
              /\ Returned(r, "canceled")
                   => /\ pi'.status = "canceled"
                      /\ pi'.meta.fep_status = "canceled"
                      /\ stats'.captures = 0]_vars

\* A sweep after the deadline has canceled an order that a report-issue
\* request had left on hold (its own cancel call having failed).
C9_Witness ==
    /\ resp = [kind |-> "cron", res |-> "canceled"]
    /\ pi.status = "canceled"
    /\ pi.meta.fep_status = "canceled"
    /\ "cron-cancel:pi" \in idem
    /\ stats.captureCalls = 0
    /\ now > pi.meta.fep_confirm_deadline

\* C10 as stated: when a sweep after the deadline has captured an order that
\* was not on hold and on which nobody acted (the sweep is the only
\* invocation there has been), a transfer of the seller payout has been
\* issued, whenever a payout is due.
C10_SweepCaptureTransfers ==
    /\ resp = [kind |-> "cron", res |-> "captured"]
    /\ started = 1
    /\ now > pi.meta.fep_confirm_deadline
    /\ PayoutDue
    => pi.status = "succeeded" /\ stats.transfers >= 1


(***************************************************************************)
(* C11.  Buyer-triggered capture after the deadline.                       *)
(***************************************************************************)
BuyerCaptureKinds == ConfirmKinds \cup {"capture_order"}

\* The order is authorized and its stored deadline has passed.
Expired == /\ pi.status = "requires_capture"
           /\ pi.meta.fep_confirm_deadline # 0
           /\ now > pi.meta.fep_confirm_deadline

\* C11 as stated: a buyer-triggered capture (confirm-received or
\* capture-order) that arrives when the order's deadline has passed is
\* refused at once with the deadline-expired error and goes on to no capture
\* call.
C11_ExpiredBuyerCaptureRefused ==
    [][Expired /\ (\E k \in BuyerCaptureKinds : Began(k))
         => req' = req /\ resp'.res = "expired"]_vars


(***************************************************************************)
(* C12, C13.  The seller payout after the capture.                         *)
(***************************************************************************)
\* This step is invocation r's transfer call, and the transfer was not made.
TransferFailed(r) ==
    /\ StepOf(r, "confirm_payout")
    /\ req[r].pc = "transfer"
    /\ stats'.transfers = stats.transfers

\* C12 as stated: when the capture has succeeded and the payout transfer that
\* follows fails, confirm-received does not answer with an error: it goes on
\* to record the order captured and to report the capture as successful.
C12_TransferFailureIsWarning ==
    [][\A r \in Slots : TransferFailed(r) => ~Returned(r, "500")]_vars

\* C13 as stated: payout is at-least-once.  When confirm-received failed
\* after the capture took effect and before any transfer was made, and the
\* caller retries it, the retry goes on to issue the transfer of the payout
\* that is due.
C13_RetryIssuesTransfer ==
    [][/\ resp = [kind |-> "confirm_payout", res |-> "500"]
       /\ pi.status = "succeeded"
       /\ PayoutDue
       /\ stats.transfers = 0
       /\ Began("confirm_payout")
       => \E r \in Slots : req[r].pc = "idle" /\ req'[r].pc \in {"capture", "transfer"}]_vars


(***************************************************************************)
(* C14.  Failure of the metadata update after the financial action.        *)
(***************************************************************************)
\* Endpoints whose metadata update follows their capture or cancel call.
ActThenUpdateKinds == ConfirmKinds \cup {"cancel_order", "cron"}

\* C14 as stated: once the capture or cancel has succeeded at the provider,
\* the handler's metadata update step ends in success whether or not the
\* update is applied: confirm-received and cancel-order answer success and
\* the scheduler counts the order as captured or canceled.
C14_UpdateFailureTolerated ==
    [][\A r \in Slots :
         /\ InFlight(r, ActThenUpdateKinds)
         /\ req[r].pc = "update"
         /\ req'[r] # req[r]
         => resp'.res \in {"captured", "ok", "canceled"}]_vars


CallAction(r) ==
    IF InFlight(r, BuyerCaptureKinds) /\ req[r].pc = "capture" THEN "capture"
    ELSE IF InFlight(r, CancelKinds) /\ req[r].pc = "cancel"
    THEN "cancel"
    ELSE IF InFlight(r, {"cron"}) /\ req[r].pc = "act"
    THEN CronAction(req[r].snap.meta.fep_status)
    ELSE "none"

CallKey(r) ==
    IF req[r].kind = "cron" THEN IdemKey("cron:" \o CallAction(r))
    ELSE IdemKey(req[r].kind)

\* C16 as stated: every capture request carries an idempotency token, and any
\* two capture requests for the order (from confirm-received, the scheduler
\* or capture-order) carry the same one; likewise every cancel request.
C16_OneTokenPerAction ==
    \A r1, r2 \in Slots :
        CallAction(r1) # "none" /\ CallAction(r1) = CallAction(r2)
          => CallKey(r1) # "" /\ CallKey(r1) = CallKey(r2)


(***************************************************************************)
(* C17.  Retrying a transition into a terminal state.                      *)
(***************************************************************************)
\* C17 as stated: cancel-order or report-issue on an order that is already
\* canceled, and confirm-received or capture-order on an order that is
\* already captured, answer at once with the already-in-that-state flag: no
\* error, and nothing is sent to the provider.
C17_TerminalRetryIdempotent ==
    [][/\ pi.status = "canceled" /\ (\E k \in CancelKinds : Began(k))
            => req' = req /\ resp'.res = "alreadyCanceled"
       /\ pi.status = "succeeded" /\ (\E k \in BuyerCaptureKinds : Began(k))
            => req' = req /\ resp'.res = "alreadyCaptured"]_vars


(***************************************************************************)
(* C18.  Buyer cancellation and the seller's sent flag.                    *)
(***************************************************************************)
\* The seller's sent flag is recorded on the authorized order.
MarkedSent == pi.status = "requires_capture" /\ pi.meta.fep_status = "sent"

\* C18 as stated: for any interleaving of cancel-order and mark-sent, once
\* the sent flag is recorded cancel-order does not cancel the authorization,
\* and a cancel-order request that reads the sent flag is refused without a
\* cancel call.
C18_SentNotCanceledByBuyer ==
    [][/\ MarkedSent /\ pi'.status = "canceled"
            => ~(\E r \in Slots : StepOf(r, "cancel_order"))
       /\ MarkedSent /\ Began("cancel_order")
            => req' = req /\ resp'.res = "409:sent"]_vars


(***************************************************************************)
(* C19.  The seller marks the order sent.                                  *)
(***************************************************************************)
\* The order's escrow status as the handlers read it off the intent: the
\* provider status, and for an intent awaiting capture whether fep_status is
\* one of the hold markers.  fep_status "sent" is the sent flag of an
\* authorized order.
OrderStatus(p) ==
    IF p.status = "succeeded" THEN "captured"
    ELSE IF p.status = "canceled" THEN "canceled"
    ELSE IF p.status = "requires_capture"
    THEN IF IsOnHold(p.meta.fep_status) THEN "on_hold" ELSE "authorized"
    ELSE "none"

SentFlag(p) == p.meta.fep_status = "sent"

\* C19: mark-sent is accepted only for an order that is authorized and not on
\* hold; it makes no financial call and leaves the order's status authorized,
\* writing nothing but the sent flag and its timestamp (every other metadata
\* key keeps its value); and a mark-sent on an order whose flag is set
\* answers alreadySent and changes nothing.
C19_MarkSentOnlyFlags ==
    [][/\ Began("mark_sent")
            => /\ UNCHANGED <<pi, stats, idem>>
               /\ req' # req => OrderStatus(pi) = "authorized" /\ ~SentFlag(pi)
               /\ OrderStatus(pi) = "authorized" /\ SentFlag(pi)
                    => req' = req /\ resp'.res = "alreadySent"
               /\ OrderStatus(pi) \in {"on_hold", "captured", "canceled"}
                    => req' = req /\ resp'.res \in {"400", "409"}
       /\ \A r \in Slots : StepOf(r, "mark_sent")
            => /\ UNCHANGED <<stats, idem>>
               /\ pi'.status = pi.status
               /\ OrderStatus(pi') = "authorized"
               /\ pi'.meta \in {pi.meta,
                                [pi.meta EXCEPT !.fep_status = "sent",
                                                !.fep_sent_at = Stamp(now)]}
               /\ Returned(r, "ok") => SentFlag(pi') /\ pi'.meta.fep_sent_at # 0]_vars

\* A mark-sent has succeeded on an authorized order and a second one has been
\* answered alreadySent: the intent still awaits capture with the flag set.
C19_Witness ==
    /\ resp = [kind |-> "mark_sent", res |-> "alreadySent"]
    /\ OrderStatus(pi) = "authorized"
    /\ SentFlag(pi)
    /\ pi.meta.fep_sent_at # 0
    /\ stats.captureCalls = 0 /\ stats.cancelCalls = 0


(***************************************************************************)
(* C20.  Webhook deliveries that cannot be verified.                       *)
(***************************************************************************)
\* C20: a webhook delivery whose signature cannot be verified (bad signature,
\* or no secret configured) is answered with an error (400, or 500 without a
\* secret) and causes no provider call: the intent's status and metadata,
\* the emitted events and the call history are unchanged.
C20_UnverifiedWebhookRejected ==
    [][Began("webhook_unverified")
         => /\ resp'.res \in {"400", "500"}
            /\ req' = req
            /\ UNCHANGED <<pi, idem, events, stats, session, remaining>>]_vars

\* An unverifiable delivery for an authorized order has been refused: the
\* intent still holds exactly the metadata it was created with.
C20_Witness ==
    /\ resp = [kind |-> "webhook_unverified", res |-> "400"]
    /\ pi.status = "requires_capture"
    /\ pi.meta = session.meta
    /\ pi.meta.fep_confirm_deadline > WebhookDeadline(now)


(***************************************************************************)
(* C21.  Idempotence of the webhook reconciler.                            *)
(***************************************************************************)
WebhookKinds == {"webhook", "wh_completed", "wh_capturable", "wh_succeeded", "wh_canceled"}

\* This step is the processing of a verified webhook event.
WebhookStep ==
    \E k \in WebhookKinds : Began(k) \/ (\E r \in Slots : StepOf(r, k))

\* The persisted status agrees with the provider's payment status.
Agrees(p) ==
    /\ p.status = "succeeded" => p.meta.fep_status = "captured"
    /\ p.status = "canceled" => p.meta.fep_status = "canceled"
    /\ p.status = "requires_capture" => ~Terminal(p.meta.fep_status)

\* C21 as stated: verified events may be processed in any order and any
\* number of times: when the persisted status agrees with the provider's
\* payment status, processing one more event (late or redelivered) leaves
\* them in agreement.
C21_ReconcilerKeepsAgreement ==
    [][WebhookStep /\ Agrees(pi) => Agrees(pi')]_vars


(***************************************************************************)
(* C22 .. C26: the release scheduler's sweep over several orders.          *)
(***************************************************************************)
\* sweep(maxOpsPerRun): the cap of the scheduler's contract.  The handler
\* reads no such setting.
MaxOpsPerRun == 2

\* C22 as stated: in one run of the sweep the captures, the cancels and the
\* errors together never exceed the configured cap of operations per run.
C22_OpsCapped ==
    run.results.captured + run.results.canceled + run.results.errors <= MaxOpsPerRun

\* The listed intent the loop reaches next.
NextListed == CHOOSE q \in run.page : \A p \in run.page : q <= p

\* The loop body ran for order o in this step.
Visits(o) ==
    /\ run.pc = "visit"
    /\ NextListed = o
    /\ Len(run'.log) = Len(run.log) + 1

LastVisit(r) == r.log[Len(r.log)]

Visited == {run.log[i].id : i \in 1 .. Len(run.log)}

\* C23.  An order that was listed as due and was finalized by another actor
\* before the loop reached it, and whose capture or cancel the provider
\* refuses for its state, is counted as skipped and not as an error; the
\* sweep leaves every order as it is, and goes on with the rest of the
\* page and with the next page.
C23_FinalizedIsSkipped ==
    [][\A o \in OrderIds :
         ( /\ Visits(o)
           /\ CronDecision(run.snap[o].status, run.snap[o].meta, now) = "due"
           /\ orders[o].status # "requires_capture"
           /\ LastVisit(run').act = "unexpected_state" )
         => /\ run'.results.skipped_on_hold = run.results.skipped_on_hold + 1
            /\ run'.results.errors = run.results.errors
            /\ run'.results.captured = run.results.captured
            /\ run'.results.canceled = run.results.canceled
            /\ orders' = orders
            /\ run'.page = run.page \ {o}
            /\ run'.pc = IF run'.page # {} THEN "visit"
                         ELSE IF run.hasMore THEN "search" ELSE "done"
            /\ run'.http # 500]_vars

\* A run that skipped a finalized order and then settled a later one.
C23_Witness ==
    \E i, j \in 1 .. Len(run.log) :
        /\ i < j
        /\ run.log[i].res = "skipped_on_hold"
        /\ run.log[j].res \in {"captured", "canceled"}

\* C24.  A sweep that completes has visited the whole awaiting-capture
\* set, on whatever page of the search an order lies: no order is left
\* awaiting capture without a visit, and one left past its deadline was
\* acted on and counted as an error.
C24_SweepVisitsEveryPage ==
    (run.pc = "done" /\ run.http = 200) =>
        \A o \in OrderIds :
            orders[o].status = "requires_capture" =>
                /\ o \in Visited
                /\ CronDecision(orders[o].status, orders[o].meta, now) = "due" =>
                      \E i \in 1 .. Len(run.log) :
                          run.log[i].id = o /\ run.log[i].res = "error"

\* A completed run over more due orders than one page holds, all settled.
C24_Witness ==
    /\ run.pc = "done" /\ run.http = 200
    /\ Len(run.log) > PageLimit
    /\ \A i \in 1 .. Len(run.log) : run.log[i].res \in {"captured", "canceled"}

\* C25 as stated: a run of the scheduler that was let in answers success
\* with its counters, whether or not the listing or an action failed.
C25_SweepAlwaysAcknowledges ==
    (run.pc = "done" /\ run.http # 403) => run.http = 200

\* C26 as stated: a request that does not carry the shared secret is
\* answered 403 and reaches neither the search nor any action.
C26_NoSecretForbidden ==
    ~run.hasKey => run.pc = "idle" \/ (run.pc = "done" /\ run.http = 403)


(***************************************************************************)
(* C27 .. C30: the price cap, the fees and the payout.                     *)
(***************************************************************************)
\* C27 as stated: a session is created for a request that supplies a face
\* value only if the unit price is at most round(faceValueCents * 1.15),
\* whatever the face value supplied, zero or not a number included.
C27_PriceWithinCap ==
    (quote.created /\ FaceSupplied(quote.body.face)) =>
        /\ toCents(quote.body.face) # Null
        /\ quote.fees.unitAmount <= CapCents(toCents(quote.body.face))

C29_ApplicationFeeBelowCharge ==
    quote.fees.application_fee_amount.sent =>
        /\ quote.fees.application_fee_amount.cents >= 0
        /\ quote.fees.application_fee_amount.cents < quote.fees.gross

\* C30 as stated: the payout transferred on capture is the quantity times
\* the unit price less the seller fee total stored at authorization.
C30_PayoutFromFrozenFees ==
    quote.transfer.sent =>
        quote.transfer.cents
          = quote.fees.qty * quote.fees.unitAmount - quote.fees.seller_fee_total_cents


(***************************************************************************)
(* C31: inventory of the listing.                                          *)
(***************************************************************************)
\* C31 as stated: whatever the number of status polls and capture-order
\* calls for a captured order, and however they overlap, the listing's
\* remaining count is reduced by the order's quantity once, and the ledger
\* holds the order exactly when that reduction has been applied.
C31_InventoryDecrementedOnce ==
    /\ listings.remaining >= AfterRemaining(listings.start, session.qty)
    /\ listings.processed <=>
          listings.remaining = AfterRemaining(listings.start, session.qty)


\* C32 as stated: a request with a bad quantity (here one below 1) is
\* refused before the session is created, so a session is created only
\* for a requested quantity between 1 and the maximum per order.
C32_BadQuantityRejected ==
    quote.created => quote.body.qty \in 1 .. MAX_QTY_PER_ORDER


(***************************************************************************)
(* C33.  A provider call that times out.                                   *)
(***************************************************************************)
\* capture-order's capture call timed out (the handler answered its error)
\* although the provider applied it: the only capture call so far.
CaptureTimedOutApplied ==
    /\ resp = [kind |-> "capture_order", res |-> "400"]
    /\ pi.status = "succeeded"
    /\ stats.captureCalls = 1 /\ stats.captures = 1

\* C33 as stated: a retry of capture-order after such a timeout issues no
\* second capture and tells the caller that the order is captured.
C33_RetryAfterTimeoutCaptured ==
    [][CaptureTimedOutApplied /\ Began("capture_order")
         => /\ stats' = stats
            /\ resp'.res \in {"captured", "alreadyCaptured"}]_vars


(***************************************************************************)
(* C34.  The deadline as the boundary between buyer and scheduler.         *)
(***************************************************************************)
\* C34 as stated: at no time are both the buyer's confirmation and the
\* scheduler's action enabled for the same order, the instant of the
\* deadline included.
C34_ConfirmAndSweepExclusive ==
    ~ ( /\ ConfirmDecision(pi.status, pi.meta.fep_confirm_deadline, now) = "capture"
        /\ CronDecision(pi.status, pi.meta, now) = "due" )

(***************************************************************************)
(* C35.  A hold placed while the sweep is between its read and its call.   *)
(***************************************************************************)
\* C35 as stated: a sweep that read an order not on hold and finds it on
\* hold at the moment of its capture call does not capture it.
C35_HoldAfterReadNotCaptured ==
    [][\A r \in Slots :
         ( /\ At(r, "cron", "act")
           /\ ~IsOnHold(req[r].snap.meta.fep_status)
           /\ IsOnHold(pi.meta.fep_status)
           /\ pi.status = "requires_capture"
           /\ StepOf(r, "cron") )
         => pi'.status # "succeeded"]_vars


(***************************************************************************)
(* C36.  The markers against the provider's payment state.                 *)
(***************************************************************************)
\* No handler is between two of its provider calls.
Quiescent == \A r \in Slots : req[r].pc \in {"idle", "off"}

\* C36 as stated: in every state that no handler is in the middle of
\* producing, a captured marker (fep_status captured or fep_captured_at) is
\* found only on a captured intent and a canceled marker (fep_status
\* canceled or fep_canceled_at) only on a canceled one.
C36_MarkersMatchProvider ==
    Quiescent =>
      /\ (pi.meta.fep_status = "captured" \/ pi.meta.fep_captured_at # 0)
            => pi.status = "succeeded"
      /\ (pi.meta.fep_status = "canceled" \/ pi.meta.fep_canceled_at # 0)
            => pi.status = "canceled"


(***************************************************************************)
(* C37.  Every authorized order is settled by the sweeps.                  *)
(***************************************************************************)
\* The checkout.session.completed delivery has been acknowledged (so the
\* provider will not deliver it again) and the order has no stored deadline.
AcknowledgedWithoutDeadline ==
    /\ resp = [kind |-> "webhook", res |-> "200"]
    /\ pi.status = "requires_capture"
    /\ pi.meta.fep_confirm_deadline = 0

\* C37 as stated, over finite runs: no sweep passes over an authorized
\* order for want of a stored deadline (such a sweep would pass over it at
\* every later time too, so the order would never be settled by sweeps),
\* also when the webhook that should have stored the deadline failed to.
C37_SweepSettlesEveryOrder ==
    [][(AcknowledgedWithoutDeadline /\ Began("cron"))
          => resp'.res # "no_deadline"]_vars


(***************************************************************************)
(* C38.  Buyer actions after the seller has marked the order sent.         *)
(***************************************************************************)
\* C38 as stated: once mark-sent has recorded the order as sent, no step of
\* cancel-order or report-issue cancels the authorization.
C38_SentNotCanceledByBuyerAction ==
    [][\A r \in Slots :
         ( /\ pi.meta.fep_sent_at # 0
           /\ req[r].snap.meta.fep_sent_at # 0
           /\ pi.status = "requires_capture"
           /\ \E k \in CancelKinds : StepOf(r, k) )
         => pi'.status # "canceled"]_vars


(***************************************************************************)
(* C39, C40.  What session-status reports against what the endpoints do.  *)
(***************************************************************************)
\* C39 as stated: for every order, can_buyer_confirm is true exactly when
\* confirm-received would capture it now, and can_buyer_cancel exactly
\* when cancel-order would cancel it now.
C39_FlagsAgreeWithEndpoints ==
    pi.status # "none" =>
      /\ can_buyer_confirm(pi.status, pi.meta.fep_status)
           <=> ( /\ pi.status = "requires_capture"
                 /\ ConfirmDecision(pi.status, pi.meta.fep_confirm_deadline, now)
                      = "capture" )
      /\ can_buyer_cancel(pi.status, pi.meta.fep_status)
           <=> CancelDecision(pi.status, pi.meta.fep_status) = "cancel"

\* C40 as stated: the deadline session-status reports for an order is the
\* deadline confirm-received and the sweep enforce for it (the stored one,
\* 0 standing for none).
C40_ReportedDeadlineIsEnforced ==
    pi.status # "none" =>
      ReportedDeadline(pi.meta.fep_confirm_deadline, session.created)
        = pi.meta.fep_confirm_deadline

====
